---------------------------- MODULE Spec2Model ----------------------------
(***************************************************************************)
(* A model of libs/binder/rust/src/parcel.rs: the Rust wrapper around the  *)
(* AParcel buffer engine.  The wrapper's handles (Parcel::Owned,           *)
(* Parcel::Borrowed, OwnedParcel, BorrowedParcel), its framing calls       *)
(* (sized_write, sized_read) and its splice (append_from) are translated   *)
(* from the Rust source.  The AParcel_* engine and the Serialize /         *)
(* Deserialize implementations for i32 live outside parcel.rs and are      *)
(* modelled from the design document.                                      *)
(***************************************************************************)
EXTENDS Integers, Sequences, FiniteSets, TLC

VARIABLES heap,   \* the engine's buffers: ptr -> [st, data, pos, deletes]
          hnd,    \* the Rust handles: slot -> [kind, ptr, parent, thread]
          raw,    \* raw pointers the caller owns (returned by into_raw)
          call,   \* the framing call whose callback is running, if any
          ret     \* what the last completed operation returned

vars == <<heap, hnd, raw, call, ret>>

----------------------------------------------------------------------------
\* Bounds of the model.

MaxSize == 12       \* bytes a buffer may hold
MaxBufs == 2       \* buffers the engine may create in one run
MaxHandles == 2    \* handle slots

Ptrs == 1..MaxBufs
NullPtr == 0
Hids == 1..MaxHandles
Threads == {1, 2}

\* i32::MAX
MaxI32 == 2147483647

\* Status codes of crate::error::StatusCode used by parcel.rs.
OK == "OK"
BAD_VALUE == "BAD_VALUE"
NOT_ENOUGH_DATA == "NOT_ENOUGH_DATA"
UNEXPECTED_NULL == "UNEXPECTED_NULL"

\* The i32 values the callers of the model write.
Vals == {-1, 0, 2, 6, MaxI32}

\* The slices the callers of the model write: up to MaxElems elements.
MaxElems == 1
SliceElems == {-1, 6}
Slices == UNION {[1..n -> SliceElems] : n \in 0..MaxElems}

\* The errors a callback may return on its own account.
CbErrors == {BAD_VALUE, UNEXPECTED_NULL}

----------------------------------------------------------------------------
\* Byte encoding of an i32 (little endian, two's complement).

LowBytes(u) ==
    <<u % 256, (u \div 256) % 256, (u \div 65536) % 256, u \div 16777216>>

I32Bytes(v) ==
    IF v >= 0 THEN LowBytes(v)
    ELSE LET w == (v + MaxI32) + 1      \* v + 2^31, in 0 .. 2^31 - 1
             lb == LowBytes(w)
         IN  <<lb[1], lb[2], lb[3], lb[4] + 128>>

BytesI32(s) ==
    IF s[4] < 128
    THEN s[1] + 256 * s[2] + 65536 * s[3] + 16777216 * s[4]
    ELSE ((s[1] + 256 * s[2] + 65536 * s[3] + 16777216 * (s[4] - 128))
            - MaxI32) - 1

\* The first n elements of s, and s without them.
Take(s, n) == SubSeq(s, 1, n)
Drop(s, n) == SubSeq(s, n + 1, Len(s))

----------------------------------------------------------------------------
\* The buffer engine (AParcel_*).  A buffer is [st, data, pos, deletes].

NoBuf == [st |-> "unalloc", data |-> <<>>, pos |-> 0, deletes |-> 0]
NewBuf == [st |-> "live", data |-> <<>>, pos |-> 0, deletes |-> 0]

\* AParcel_getDataPosition / AParcel_getDataSize
AParcel_getDataPosition(b) == b.pos
AParcel_getDataSize(b) == Len(b.data)

\* AParcel_setDataPosition: negative positions are refused, others stored.
AParcel_setDataPosition(b, pos) ==
    IF pos < 0 THEN [status |-> BAD_VALUE, buf |-> b]
    ELSE [status |-> OK, buf |-> [b EXCEPT !.pos = pos]]

\* Writing bytes bs at the cursor: overwrite in place, grow the size when the
\* write runs past it, advance the cursor by the encoded width.
WriteBytes(b, bs) ==
    LET p == b.pos
        n == Len(bs)
        d == b.data
    IN  [b EXCEPT !.data = Take(d, p) \o bs \o Drop(d, p + n),
                  !.pos = p + n]

\* AParcel_writeInt32
AParcel_writeInt32(b, v) ==
    [status |-> OK, buf |-> WriteBytes(b, I32Bytes(v))]

\* AParcel_readInt32: fails without moving the cursor when fewer than four
\* bytes remain before the data size.
AParcel_readInt32(b) ==
    IF b.pos + 4 <= Len(b.data)
    THEN [status |-> OK,
          value |-> BytesI32(SubSeq(b.data, b.pos + 1, b.pos + 4)),
          buf |-> [b EXCEPT !.pos = b.pos + 4]]
    ELSE [status |-> NOT_ENOUGH_DATA, value |-> 0, buf |-> b]

\* AParcel_appendFrom(from, to, start, size): bounds-checked copy of
\* from[start, start + size) onto the end of to.  The design leaves open
\* whether the destination's cursor follows the appended bytes; adv chooses.
AppendRangeOk(from, start, size) ==
    /\ start >= 0
    /\ size >= 0
    /\ size <= Len(from.data)
    /\ start <= Len(from.data) - size

AParcel_appendFrom(from, to, start, size, adv) ==
    IF ~AppendRangeOk(from, start, size)
    THEN [status |-> BAD_VALUE, buf |-> to]
    ELSE [status |-> OK,
          buf |-> [to EXCEPT
                     !.data = to.data \o SubSeq(from.data, start + 1, start + size),
                     !.pos = IF adv THEN Len(to.data) + size ELSE to.pos]]

\* AParcel_delete
AParcel_delete(b) ==
    [st |-> "freed", data |-> <<>>, pos |-> 0, deletes |-> b.deletes + 1]


----------------------------------------------------------------------------
\* The Rust handles.  kind is "Owned" / "Borrowed" (the variants of enum
\* Parcel), "OwnedParcel", "BorrowedParcel", or "none" for a free slot.
\* parent is the OwnedParcel a BorrowedParcel borrows from (its lifetime 'a).

NoHandle == [kind |-> "none", ptr |-> NullPtr, parent |-> 0, thread |-> 0]

ParcelKinds == {"Owned", "Borrowed", "BorrowedParcel"}

\* AsNative for Parcel (BorrowedParcel derefs to its inner Parcel).
as_native(p) == p.ptr

\* No framing call is running.
NoCall == [op |-> "none", h |-> 0, start |-> 0, end |-> 0, len |-> 0]

\* The record an operation leaves in ret: the operation, the handle it went
\* through, the status it returned, the cursor at entry (start), a length or
\* value (len), the cursor just before the operation's last step (ppos) and
\* what the operation was given (arg: the source handle of a copy, the value
\* a callback returned).
Ret(op, h, status, start, len, ppos, arg) ==
    [op |-> op, h |-> h, status |-> status, start |-> start, len |-> len,
     ppos |-> ppos, arg |-> arg]

BorrowedOut_Never(h) == FALSE

\* A live BorrowedParcel borrows handle h mutably.
BorrowedOut(h) ==
    \E g \in Hids : hnd[g].kind = "BorrowedParcel" /\ hnd[g].parent = h

\* Handle h is a Parcel the caller can call methods on now.
\* (A call through a null pointer crashes inside the engine; the model does
\* not take such a step.)
CanUse(h) ==
    /\ hnd[h].kind \in ParcelKinds
    /\ as_native(hnd[h]) \in Ptrs
    /\ call.op = "none"

Buf(h) == heap[as_native(hnd[h])]

\* Parcel::get_data_position / Parcel::get_data_size
get_data_position(b) == AParcel_getDataPosition(b)
get_data_size(b) == AParcel_getDataSize(b)

\* Parcel::set_data_position
set_data_position(b, pos) == AParcel_setDataPosition(b, pos)

\* Parcel::write::<i32>: Serialize for i32 is AParcel_writeInt32.
write_i32(b, v) == AParcel_writeInt32(b, v)

\* Parcel::write::<[i32]>: Serialize for a slice writes the element count as
\* an int32 and then the elements in order.
RECURSIVE WriteElems(_, _)
WriteElems(b, s) ==
    IF s = <<>> THEN [status |-> OK, buf |-> b]
    ELSE LET r == write_i32(b, Head(s))
         IN  IF r.status # OK THEN r ELSE WriteElems(r.buf, Tail(s))

write_slice_i32(b, s) ==
    LET r == write_i32(b, Len(s))
    IN  IF r.status # OK THEN r ELSE WriteElems(r.buf, s)

read_i32_Peek(b) ==
    LET r == AParcel_readInt32(b)
    IN  [r EXCEPT !.buf = b]

read_i32_Defaulting(b) ==
    LET r == AParcel_readInt32(b)
    IN  IF r.status # OK THEN [r EXCEPT !.status = OK] ELSE r

\* Parcel::read::<i32>: Deserialize for i32 is AParcel_readInt32.
read_i32(b) == AParcel_readInt32(b)

----------------------------------------------------------------------------
\* Plain cursor operations.

\* parcel.write(&v)
Write(h, v) ==
    /\ CanUse(h)
    /\ Buf(h).pos + 4 <= MaxSize
    /\ LET r == write_i32(Buf(h), v)
       IN  /\ heap' = [heap EXCEPT ![as_native(hnd[h])] = r.buf]
           /\ ret' = Ret("write", h, r.status, Buf(h).pos, v, Buf(h).pos, 0)
    /\ UNCHANGED <<hnd, raw, call>>

\* parcel.read::<i32>()
Read(h) ==
    /\ CanUse(h)
    /\ LET r == read_i32(Buf(h))
       IN  /\ heap' = [heap EXCEPT ![as_native(hnd[h])] = r.buf]
           /\ ret' = Ret("read", h, r.status, Buf(h).pos, r.value, Buf(h).pos, 0)
    /\ UNCHANGED <<hnd, raw, call>>

\* AParcel_readInt64: fails without moving the cursor when fewer than eight
\* bytes remain before the data size.  The value is kept as its eight bytes.
AParcel_readInt64(b) ==
    IF b.pos + 8 <= Len(b.data)
    THEN [status |-> OK,
          value |-> SubSeq(b.data, b.pos + 1, b.pos + 8),
          buf |-> [b EXCEPT !.pos = b.pos + 8]]
    ELSE [status |-> NOT_ENOUGH_DATA, value |-> <<>>, buf |-> b]

\* Parcel::read::<i64>: Deserialize for i64 is AParcel_readInt64.
read_i64(b) == AParcel_readInt64(b)

\* parcel.read::<i64>()
ReadI64(h) ==
    /\ CanUse(h)
    /\ LET r == read_i64(Buf(h))
       IN  /\ heap' = [heap EXCEPT ![as_native(hnd[h])] = r.buf]
           /\ ret' = Ret("read_i64", h, r.status, Buf(h).pos, 0, Buf(h).pos,
                         r.value)
    /\ UNCHANGED <<hnd, raw, call>>

\* The positions the callers of the model seek to: the word-aligned offsets
\* inside the data.
SeekPositions(b) == {p \in 0..get_data_size(b) : p % 4 = 0}

\* parcel.set_data_position(pos)
SetDataPosition(h, pos) ==
    /\ CanUse(h)
    /\ pos \in SeekPositions(Buf(h))
    /\ LET r == set_data_position(Buf(h), pos)
       IN  /\ heap' = [heap EXCEPT ![as_native(hnd[h])] = r.buf]
           /\ ret' = Ret("set_data_position", h, r.status, Buf(h).pos, pos,
                         Buf(h).pos, 0)
    /\ UNCHANGED <<hnd, raw, call>>

----------------------------------------------------------------------------
\* sized_write.

PatchLength_BodyOnly(start, end) == end - start - 4

PatchLength_Reversed(start, end) == start - end

\* The length patched into the placeholder: the block's size, length field
\* included.
PatchLength(start, end) == end - start

SizedWriteFinish_NoSeekEnd(b, start) ==
    LET end == get_data_position(b)
        r1 == set_data_position(b, start)
    IN  IF r1.status # OK THEN r1
        ELSE IF ~(end >= start) THEN [status |-> "PANIC", buf |-> r1.buf]
        ELSE write_i32(r1.buf, PatchLength(start, end))

\* sized_write after the callback returned Ok: seek back, patch, seek forward.
SizedWriteFinish(b, start) ==
    LET end == get_data_position(b)
        r1 == set_data_position(b, start)
    IN  IF r1.status # OK THEN r1
        ELSE IF ~(end >= start) THEN [status |-> "PANIC", buf |-> r1.buf]
        ELSE LET r2 == write_i32(r1.buf, PatchLength(start, end))
             IN  IF r2.status # OK THEN r2
                 ELSE set_data_position(r2.buf, end)

SizedWriteAfterCallback_PatchFirst(b, start, res) ==
    LET r == SizedWriteFinish(b, start)
    IN  IF res # OK THEN [status |-> res, buf |-> r.buf] ELSE r

\* sized_write when the callback returned res: `f(&subparcel)?` returns the
\* error at once, before any of the patch-back.
SizedWriteAfterCallback(b, start, res) ==
    IF res # OK THEN [status |-> res, buf |-> b]
    ELSE SizedWriteFinish(b, start)

\* sized_write up to the call of f: record start, write the placeholder.
SizedWriteBegin(h) ==
    /\ CanUse(h)
    /\ Buf(h).pos + 4 <= MaxSize
    /\ LET start == get_data_position(Buf(h))
           r == write_i32(Buf(h), 0)
       IN  /\ heap' = [heap EXCEPT ![as_native(hnd[h])] = r.buf]
           /\ call' = [op |-> "sized_write", h |-> h, start |-> start,
                       end |-> 0, len |-> 0]
           /\ ret' = Ret("sized_write_begin", h, r.status, start, 0, start, 0)
    /\ UNCHANGED <<hnd, raw>>

\* WritableSubParcel::write(&v) inside the callback.
SubWrite(v) ==
    /\ call.op = "sized_write"
    /\ Buf(call.h).pos + 4 <= MaxSize
    /\ LET r == write_i32(Buf(call.h), v)
       IN  /\ heap' = [heap EXCEPT ![as_native(hnd[call.h])] = r.buf]
           /\ call' = [call EXCEPT !.len = call.len + 4]
           /\ ret' = Ret("sub_write", call.h, r.status, Buf(call.h).pos, v,
                         Buf(call.h).pos, 0)
    /\ UNCHANGED <<hnd, raw>>

\* WritableSubParcel::write(&slice[..]) inside the callback.
SubWriteSlice(s) ==
    /\ call.op = "sized_write"
    /\ Buf(call.h).pos + 4 + 4 * Len(s) <= MaxSize
    /\ LET r == write_slice_i32(Buf(call.h), s)
       IN  /\ heap' = [heap EXCEPT ![as_native(hnd[call.h])] = r.buf]
           /\ call' = [call EXCEPT !.len = call.len + 4 + 4 * Len(s)]
           /\ ret' = Ret("sub_write_slice", call.h, r.status,
                         Buf(call.h).pos, Len(s), Buf(call.h).pos, 0)
    /\ UNCHANGED <<hnd, raw>>

\* The callback returns res and sized_write runs to its end.
SizedWriteReturn(res) ==
    /\ call.op = "sized_write"
    /\ LET r == SizedWriteAfterCallback(Buf(call.h), call.start, res)
       IN  /\ heap' = [heap EXCEPT ![as_native(hnd[call.h])] = r.buf]
           /\ ret' = Ret("sized_write", call.h, r.status, call.start,
                         call.len, Buf(call.h).pos, res)
    /\ call' = NoCall
    /\ UNCHANGED <<hnd, raw>>

----------------------------------------------------------------------------
\* sized_read.

\* start.checked_add(len) on i32, for start >= 0.
checked_add(a, b) ==
    IF b > MaxI32 - a THEN [ok |-> FALSE, value |-> 0]
    ELSE [ok |-> TRUE, value |-> a + b]

SizedReadCheck_NoSign(start, parcelable_size, data_size) ==
    LET e == checked_add(start, parcelable_size)
    IN  IF ~e.ok THEN [status |-> BAD_VALUE, end |-> 0]
        ELSE IF e.value > data_size
             THEN [status |-> NOT_ENOUGH_DATA, end |-> 0]
             ELSE [status |-> OK, end |-> e.value]

SizedReadCheck_HeaderIncluded(start, parcelable_size, data_size) ==
    IF parcelable_size < 4 THEN [status |-> BAD_VALUE, end |-> 0]
    ELSE LET e == checked_add(start, parcelable_size)
         IN  IF ~e.ok THEN [status |-> BAD_VALUE, end |-> 0]
             ELSE IF e.value > data_size
                  THEN [status |-> NOT_ENOUGH_DATA, end |-> 0]
                  ELSE [status |-> OK, end |-> e.value]

\* The checks sized_read makes on the declared length before it calls f.
SizedReadCheck(start, parcelable_size, data_size) ==
    IF parcelable_size < 0 THEN [status |-> BAD_VALUE, end |-> 0]
    ELSE LET e == checked_add(start, parcelable_size)
         IN  IF ~e.ok THEN [status |-> BAD_VALUE, end |-> 0]
             ELSE IF e.value > data_size
                  THEN [status |-> NOT_ENOUGH_DATA, end |-> 0]
                  ELSE [status |-> OK, end |-> e.value]

SizedReadHeader_Restoring(b) ==
    LET start == get_data_position(b)
        r == read_i32(b)
    IN  IF r.status # OK
        THEN [status |-> r.status, buf |-> r.buf, end |-> 0, len |-> 0]
        ELSE LET c == SizedReadCheck(start, r.value, get_data_size(r.buf))
             IN  [status |-> c.status,
                  buf |-> IF c.status = OK THEN r.buf ELSE b,
                  end |-> c.end, len |-> r.value]

\* sized_read up to the call of f.
SizedReadHeader(b) ==
    LET start == get_data_position(b)
        r == read_i32(b)
    IN  IF r.status # OK
        THEN [status |-> r.status, buf |-> r.buf, end |-> 0, len |-> 0]
        ELSE LET c == SizedReadCheck(start, r.value, get_data_size(r.buf))
             IN  [status |-> c.status, buf |-> r.buf, end |-> c.end,
                  len |-> r.value]

SizedReadAfterCallback_SkipOnly(b, end, res) ==
    IF res # OK THEN [status |-> res, buf |-> b]
    ELSE IF get_data_position(b) < end THEN set_data_position(b, end)
    ELSE [status |-> OK, buf |-> b]

SizedReadAfterCallback_SeekAlways(b, end, res) ==
    LET r == set_data_position(b, end)
    IN  IF res # OK THEN [status |-> res, buf |-> r.buf] ELSE r

\* sized_read after the callback returned res: `f(subparcel)?` returns the
\* error at once; otherwise the cursor is moved to end.
SizedReadAfterCallback(b, end, res) ==
    IF res # OK THEN [status |-> res, buf |-> b]
    ELSE set_data_position(b, end)

SizedReadBegin(h) ==
    /\ CanUse(h)
    /\ LET r == SizedReadHeader(Buf(h))
       IN  /\ heap' = [heap EXCEPT ![as_native(hnd[h])] = r.buf]
           /\ IF r.status = OK
              THEN /\ call' = [op |-> "sized_read", h |-> h,
                               start |-> Buf(h).pos, end |-> r.end,
                               len |-> r.len]
                   /\ ret' = Ret("sized_read_begin", h, OK, Buf(h).pos,
                                 r.len, Buf(h).pos, 0)
              ELSE /\ call' = NoCall
                   /\ ret' = Ret("sized_read", h, r.status, Buf(h).pos,
                                 r.len, Buf(h).pos, 0)
    /\ UNCHANGED <<hnd, raw>>

has_more_data_Inclusive(b, end_position) ==
    get_data_position(b) <= end_position

\* ReadableSubParcel::has_more_data
has_more_data(b, end_position) == get_data_position(b) < end_position

\* subparcel.has_more_data() inside the callback.
SubHasMoreData ==
    /\ call.op = "sized_read"
    /\ ret' = Ret("has_more_data", call.h, OK, Buf(call.h).pos,
                  IF has_more_data(Buf(call.h), call.end) THEN 1 ELSE 0,
                  Buf(call.h).pos, 0)
    /\ UNCHANGED <<heap, hnd, raw, call>>

\* ReadableSubParcel::read::<i32>: the assertion, then the plain read.
SubParcelRead(b, end_position) ==
    IF ~has_more_data(b, end_position)
    THEN [status |-> "PANIC", value |-> 0, buf |-> b]
    ELSE read_i32(b)

\* subparcel.read::<i32>() inside the callback; a failed assertion unwinds
\* out of sized_read.
SubRead ==
    /\ call.op = "sized_read"
    /\ LET r == SubParcelRead(Buf(call.h), call.end)
       IN  /\ heap' = [heap EXCEPT ![as_native(hnd[call.h])] = r.buf]
           /\ ret' = Ret("sub_read", call.h, r.status, Buf(call.h).pos,
                         r.value, Buf(call.h).pos, 0)
           /\ call' = IF r.status = "PANIC" THEN NoCall ELSE call
    /\ UNCHANGED <<hnd, raw>>

\* The callback returns res and sized_read runs to its end.
SizedReadReturn(res) ==
    /\ call.op = "sized_read"
    /\ LET r == SizedReadAfterCallback(Buf(call.h), call.end, res)
       IN  /\ heap' = [heap EXCEPT ![as_native(hnd[call.h])] = r.buf]
           /\ ret' = Ret("sized_read", call.h, r.status, call.start,
                         call.len, Buf(call.h).pos, res)
    /\ call' = NoCall
    /\ UNCHANGED <<hnd, raw>>

----------------------------------------------------------------------------
\* The framing specification: one Parcel, as Parcel::new() leaves it.

Init ==
    /\ heap = [p \in Ptrs |-> IF p = 1 THEN NewBuf ELSE NoBuf]
    /\ hnd = [h \in Hids |->
                IF h = 1 THEN [kind |-> "Owned", ptr |-> 1, parent |-> 0,
                               thread |-> 1]
                ELSE NoHandle]
    /\ raw = {}
    /\ call = NoCall
    /\ ret = Ret("new", 1, OK, 0, 0, 0, 0)

Next ==
    \/ \E h \in Hids, v \in Vals : Write(h, v)
    \/ \E h \in Hids : Read(h)
    \/ \E h \in Hids, pos \in 0..MaxSize : SetDataPosition(h, pos)
    \/ \E h \in Hids : SizedWriteBegin(h)
    \/ \E v \in Vals : SubWrite(v)
    \/ \E s \in Slices : SubWriteSlice(s)
    \/ \E res \in {OK} \cup CbErrors : SizedWriteReturn(res)
    \/ \E h \in Hids : SizedReadBegin(h)
    \/ SubRead
    \/ SubHasMoreData
    \/ \E res \in {OK} \cup CbErrors : SizedReadReturn(res)

Spec == Init /\ [][Next]_vars

----------------------------------------------------------------------------
\* Splice.

append_from_Swapped(dst, src, start, size, adv) ==
    AParcel_appendFrom(src, dst, size, start, adv)

\* Parcel::append_from(&mut self, other, start, size) on the buffers of self
\* (dst) and other (src).
append_from(dst, src, start, size, adv) ==
    AParcel_appendFrom(src, dst, start, size, adv)

append_all_from_ToCursor(dst, src, adv) ==
    append_from(dst, src, 0, get_data_position(src), adv)

append_all_from_OwnSize(dst, src, adv) ==
    append_from(dst, src, 0, get_data_size(dst), adv)

\* Parcel::append_all_from(&mut self, other)
append_all_from(dst, src, adv) ==
    append_from(dst, src, 0, get_data_size(src), adv)

\* dst.append_all_from(&src) through handles d and s.
AppendAllFrom(d, s, adv) ==
    /\ CanUse(d)
    /\ CanUse(s)
    /\ d # s
    /\ Len(Buf(d).data) + Len(Buf(s).data) <= MaxSize
    /\ LET r == append_all_from(Buf(d), Buf(s), adv)
       IN  /\ heap' = [heap EXCEPT ![as_native(hnd[d])] = r.buf]
           /\ ret' = Ret("append_all_from", d, r.status, 0,
                         get_data_size(Buf(s)), Buf(d).pos, s)
    /\ UNCHANGED <<hnd, raw, call>>

\* dst.append_from(&src, start, size) through handles d and s.
AppendFrom(d, s, start, size, adv) ==
    /\ CanUse(d)
    /\ CanUse(s)
    /\ d # s
    /\ Len(Buf(d).data) + size <= MaxSize
    /\ LET r == append_from(Buf(d), Buf(s), start, size, adv)
       IN  /\ heap' = [heap EXCEPT ![as_native(hnd[d])] = r.buf]
           /\ ret' = Ret("append_from", d, r.status, start, size,
                         Buf(d).pos, s)
    /\ UNCHANGED <<hnd, raw, call>>

----------------------------------------------------------------------------
\* Construction, conversion and destruction of handles.

Handle(kind, ptr, parent, thread) ==
    [kind |-> kind, ptr |-> ptr, parent |-> parent, thread |-> thread]

\* The handle slots and the pointers not in use yet.
FreeSlots == {h \in Hids : hnd[h].kind = "none"}
NewSlot == CHOOSE h \in FreeSlots : \A g \in FreeSlots : h <= g
FreePtrs(hp) == {p \in Ptrs : hp[p].st = "unalloc"}

\* AParcel_create: a buffer that was never handed out before.
AParcel_create(hp) ==
    CHOOSE p \in FreePtrs(hp) : \A q \in FreePtrs(hp) : p <= q

\* AParcel_delete through a pointer; deleting the null pointer does nothing.
DeleteAt(hp, p) ==
    IF p = NullPtr THEN hp ELSE [hp EXCEPT ![p] = AParcel_delete(@)]

\* Parcel::new / OwnedParcel::new: AParcel_create and the non-null assertion.
create(hp) ==
    LET p == AParcel_create(hp)
    IN  [ptr |-> p, heap |-> [hp EXCEPT ![p] = NewBuf]]

drop_Parcel_Any(hp, hr) == DeleteAt(hp, hr.ptr)

\* Drop for Parcel: only the Owned variant deletes.
drop_Parcel(hp, hr) ==
    IF hr.kind = "Owned" THEN DeleteAt(hp, hr.ptr) ELSE hp

\* Drop for OwnedParcel
drop_OwnedParcel(hp, hr) == DeleteAt(hp, hr.ptr)

\* BorrowedParcel has no Drop of its own: dropping it drops its field
\* inner, a Parcel::Borrowed.
drop_BorrowedParcel(hp, hr) ==
    drop_Parcel(hp, [hr EXCEPT !.kind = "Borrowed"])

\* The heap after the handle hr went out of scope.
DropEffect(hp, hr) ==
    CASE hr.kind = "OwnedParcel" -> drop_OwnedParcel(hp, hr)
      [] hr.kind = "BorrowedParcel" -> drop_BorrowedParcel(hp, hr)
      [] OTHER -> drop_Parcel(hp, hr)

into_raw_Dropping(hp, hr) ==
    [ptr |-> hr.ptr, heap |-> drop_OwnedParcel(hp, hr)]

\* OwnedParcel::into_raw: ManuallyDrop keeps the destructor from running.
into_raw(hp, hr) == [ptr |-> hr.ptr, heap |-> hp]

\* OwnedParcel::from_raw: None for the null pointer.
from_raw(ptr, t) ==
    IF ptr = NullPtr THEN NoHandle ELSE Handle("OwnedParcel", ptr, 0, t)

\* Parcel::borrowed(ptr): None for the null pointer.
Parcel_borrowed(ptr, t) ==
    IF ptr = NullPtr THEN NoHandle ELSE Handle("Borrowed", ptr, 0, t)

\* The pointers thread t holds as raw pointers.
RawOf(t) == {r.ptr : r \in {x \in raw : x.thread = t}}

\* Parcel::new()
ParcelNew(t) ==
    /\ call.op = "none"
    /\ FreeSlots # {}
    /\ FreePtrs(heap) # {}
    /\ LET n == create(heap)
       IN  /\ heap' = n.heap
           /\ hnd' = [hnd EXCEPT ![NewSlot] = Handle("Owned", n.ptr, 0, t)]
           /\ ret' = Ret("Parcel::new", NewSlot, OK, 0, n.ptr, 0, 0)
    /\ UNCHANGED <<raw, call>>

\* OwnedParcel::new()
OwnedParcelNew(t) ==
    /\ call.op = "none"
    /\ FreeSlots # {}
    /\ FreePtrs(heap) # {}
    /\ LET n == create(heap)
       IN  /\ heap' = n.heap
           /\ hnd' = [hnd EXCEPT
                        ![NewSlot] = Handle("OwnedParcel", n.ptr, 0, t)]
           /\ ret' = Ret("OwnedParcel::new", NewSlot, OK, 0, n.ptr, 0, 0)
    /\ UNCHANGED <<raw, call>>

\* OwnedParcel::from_raw(ptr), called as its safety contract demands: ptr is
\* null or a pointer the caller owns, and no other handle uses the buffer.
FromRaw(t, ptr) ==
    /\ call.op = "none"
    /\ FreeSlots # {}
    /\ ptr \in RawOf(t) \cup {NullPtr}
    /\ \A g \in Hids : hnd[g].kind # "none" => hnd[g].ptr # ptr
    /\ LET r == from_raw(ptr, t)
       IN  /\ hnd' = IF r.kind = "none" THEN hnd
                     ELSE [hnd EXCEPT ![NewSlot] = r]
           /\ ret' = Ret("from_raw", IF r.kind = "none" THEN 0 ELSE NewSlot,
                         IF r.kind = "none" THEN "None" ELSE OK,
                         0, ptr, 0, 0)
    /\ raw' = {x \in raw : x.ptr # ptr}
    /\ UNCHANGED <<heap, call>>

\* Parcel::borrowed(ptr), called as its safety contract demands: ptr is null
\* or a valid pointer, here one the caller owns.
ParcelBorrowed(t, ptr) ==
    /\ call.op = "none"
    /\ FreeSlots # {}
    /\ ptr \in RawOf(t) \cup {NullPtr}
    /\ LET r == Parcel_borrowed(ptr, t)
       IN  /\ hnd' = IF r.kind = "none" THEN hnd
                     ELSE [hnd EXCEPT ![NewSlot] = r]
           /\ ret' = Ret("Parcel::borrowed",
                         IF r.kind = "none" THEN 0 ELSE NewSlot,
                         IF r.kind = "none" THEN "None" ELSE OK,
                         0, ptr, 0, 0)
    /\ UNCHANGED <<heap, raw, call>>

\* The enum's variants applied to a null pointer, as in the example of
\* sized_write: Parcel::Owned(std::ptr::null_mut()).
ParcelOfNull(t, kind) ==
    /\ call.op = "none"
    /\ FreeSlots # {}
    /\ hnd' = [hnd EXCEPT ![NewSlot] = Handle(kind, NullPtr, 0, t)]
    /\ ret' = Ret("Parcel::variant", NewSlot, OK, 0, NullPtr, 0, kind)
    /\ UNCHANGED <<heap, raw, call>>

\* owned.into_raw()
IntoRaw(h) ==
    /\ call.op = "none"
    /\ hnd[h].kind = "OwnedParcel"
    /\ ~BorrowedOut(h)
    /\ LET r == into_raw(heap, hnd[h])
       IN  /\ heap' = r.heap
           /\ raw' = raw \cup {[ptr |-> r.ptr, thread |-> hnd[h].thread]}
           /\ ret' = Ret("into_raw", h, OK, 0, r.ptr, 0, 0)
    /\ hnd' = [hnd EXCEPT ![h] = NoHandle]
    /\ UNCHANGED call

\* owned.into_parcel(): Parcel::Owned(self.into_raw())
IntoParcel(h) ==
    /\ call.op = "none"
    /\ hnd[h].kind = "OwnedParcel"
    /\ ~BorrowedOut(h)
    /\ LET r == into_raw(heap, hnd[h])
       IN  /\ heap' = r.heap
           /\ hnd' = [hnd EXCEPT
                        ![h] = Handle("Owned", r.ptr, 0, hnd[h].thread)]
           /\ ret' = Ret("into_parcel", h, OK, 0, r.ptr, 0, 0)
    /\ UNCHANGED <<raw, call>>

\* owned.borrowed(): a BorrowedParcel that holds the &mut borrow of owned.
Borrow(h) ==
    /\ call.op = "none"
    /\ hnd[h].kind = "OwnedParcel"
    /\ ~BorrowedOut(h)
    /\ FreeSlots # {}
    /\ hnd' = [hnd EXCEPT
                 ![NewSlot] = Handle("BorrowedParcel", hnd[h].ptr, h,
                                     hnd[h].thread)]
    /\ ret' = Ret("borrowed", NewSlot, OK, 0, hnd[h].ptr, 0, h)
    /\ UNCHANGED <<heap, raw, call>>

clone_Parcel_Alias(hp, hr, adv) ==
    [status |-> OK, heap |-> hp,
     handle |-> Handle("Owned", hr.ptr, 0, hr.thread)]

\* Clone for Parcel: a new parcel, append_all_from(self), expect.  A failed
\* expect unwinds and drops the new parcel.
clone_Parcel(hp, hr, adv) ==
    LET n == create(hp)
        new_parcel == Handle("Owned", n.ptr, 0, hr.thread)
        a == append_all_from(n.heap[n.ptr], hp[as_native(hr)], adv)
    IN  IF a.status # OK
        THEN [status |-> "PANIC", heap |-> drop_Parcel(n.heap, new_parcel),
              handle |-> NoHandle]
        ELSE [status |-> OK, heap |-> [n.heap EXCEPT ![n.ptr] = a.buf],
              handle |-> new_parcel]

\* Clone for OwnedParcel: the same through new_parcel.borrowed() and the
\* temporary Parcel::Borrowed(self.ptr), both dropped at the statement's end.
clone_OwnedParcel(hp, hr, adv) ==
    LET n == create(hp)
        new_parcel == Handle("OwnedParcel", n.ptr, 0, hr.thread)
        view == Handle("BorrowedParcel", n.ptr, 0, hr.thread)
        other == Handle("Borrowed", hr.ptr, 0, hr.thread)
        a == append_all_from(n.heap[as_native(view)], hp[as_native(other)],
                             adv)
        appended == [n.heap EXCEPT ![n.ptr] = a.buf]
        temps == drop_Parcel(drop_BorrowedParcel(appended, view), other)
    IN  IF a.status # OK
        THEN [status |-> "PANIC",
              heap |-> drop_OwnedParcel(temps, new_parcel),
              handle |-> NoHandle]
        ELSE [status |-> OK, heap |-> temps, handle |-> new_parcel]

\* parcel.clone() / owned.clone()
Clone(h, adv) ==
    /\ call.op = "none"
    /\ hnd[h].kind # "none"
    /\ as_native(hnd[h]) \in Ptrs
    /\ ~BorrowedOut(h)
    /\ FreeSlots # {}
    /\ FreePtrs(heap) # {}
    /\ LET r == IF hnd[h].kind = "OwnedParcel"
                THEN clone_OwnedParcel(heap, hnd[h], adv)
                ELSE clone_Parcel(heap, hnd[h], adv)
       IN  /\ heap' = r.heap
           /\ hnd' = IF r.status = OK THEN [hnd EXCEPT ![NewSlot] = r.handle]
                     ELSE hnd
           /\ ret' = Ret("clone", NewSlot, r.status, 0, 0, 0, h)
    /\ UNCHANGED <<raw, call>>

\* The handle in slot h goes out of scope.
DropHandle(h) ==
    /\ call.op = "none"
    /\ hnd[h].kind # "none"
    /\ ~BorrowedOut(h)
    /\ heap' = DropEffect(heap, hnd[h])
    /\ hnd' = [hnd EXCEPT ![h] = NoHandle]
    /\ ret' = Ret("drop", h, OK, 0, hnd[h].ptr, 0, hnd[h].kind)
    /\ UNCHANGED <<raw, call>>

\* An OwnedParcel is moved to thread t (OwnedParcel is Send; Parcel and
\* BorrowedParcel hold a raw pointer and are not).
Send(h, t) ==
    /\ call.op = "none"
    /\ hnd[h].kind = "OwnedParcel"
    /\ ~BorrowedOut(h)
    /\ t # hnd[h].thread
    /\ hnd' = [hnd EXCEPT ![h].thread = t]
    /\ ret' = Ret("send", h, OK, 0, hnd[h].ptr, 0, t)
    /\ UNCHANGED <<heap, raw, call>>

----------------------------------------------------------------------------
\* The ownership specification: no handle and no buffer to begin with.

\* The value and the data size the callers of this specification use.
OwnVals == {42}
OwnMaxSize == 4

InitOwn ==
    /\ heap = [p \in Ptrs |-> NoBuf]
    /\ hnd = [h \in Hids |-> NoHandle]
    /\ raw = {}
    /\ call = NoCall
    /\ ret = Ret("start", 0, OK, 0, 0, 0, 0)

NextOwn ==
    \/ \E t \in Threads : ParcelNew(t)
    \/ \E t \in Threads : OwnedParcelNew(t)
    \/ \E t \in Threads, p \in Ptrs \cup {NullPtr} : FromRaw(t, p)
    \/ \E t \in Threads, p \in Ptrs \cup {NullPtr} : ParcelBorrowed(t, p)
    \/ \E h \in Hids : IntoRaw(h)
    \/ \E h \in Hids : IntoParcel(h)
    \/ \E h \in Hids : Borrow(h)
    \/ \E h \in Hids, adv \in BOOLEAN : Clone(h, adv)
    \/ \E h \in Hids : DropHandle(h)
    \/ \E h \in Hids, t \in Threads : Send(h, t)
    \/ \E h \in Hids, v \in OwnVals :
          CanUse(h) /\ Len(Buf(h).data) + 4 <= OwnMaxSize /\ Write(h, v)
    \/ \E h \in Hids, pos \in 0..MaxSize : SetDataPosition(h, pos)

SpecOwn == InitOwn /\ [][NextOwn]_vars

\* The same with the enum's variants applied directly.
NextVar ==
    \/ NextOwn
    \/ \E t \in Threads, kind \in {"Owned", "Borrowed"} : ParcelOfNull(t, kind)

SpecVar == InitOwn /\ [][NextVar]_vars

----------------------------------------------------------------------------
\* The splice specification: a source parcel (handle 1) and a destination
\* parcel (handle 2), each as Parcel::new() leaves it.

\* The data size up to which the destination is appended to.
AppendCap == 8

\* The offsets and sizes the callers of this specification pass.
AppendArgs == {-1, 0, 2, 4, 6}

InitAppend ==
    /\ heap = [p \in Ptrs |-> IF p \in {1, 2} THEN NewBuf ELSE NoBuf]
    /\ hnd = [h \in Hids |->
                IF h \in {1, 2} THEN Handle("Owned", h, 0, 1) ELSE NoHandle]
    /\ raw = {}
    /\ call = NoCall
    /\ ret = Ret("Parcel::new", 2, OK, 0, 2, 0, 0)

NextAppend ==
    \/ \E v \in OwnVals : Len(Buf(1).data) + 4 <= AppendCap /\ Write(1, v)
    \/ \E pos \in 0..MaxSize : SetDataPosition(1, pos)
    \/ \E pos \in 0..MaxSize : SetDataPosition(2, pos)
    \/ Read(2)
    \/ \E start \in AppendArgs, size \in AppendArgs, adv \in BOOLEAN :
          /\ Len(Buf(2).data) + size <= AppendCap
          /\ AppendFrom(2, 1, start, size, adv)
    \/ \E adv \in BOOLEAN :
          /\ Len(Buf(2).data) + Len(Buf(1).data) <= AppendCap
          /\ AppendAllFrom(2, 1, adv)
    \/ ReadI64(2)

SpecAppend == InitAppend /\ [][NextAppend]_vars

----------------------------------------------------------------------------
\* Properties of the framing calls.

\* The int32 stored at offset start of buffer b.
HeaderAt(b, start) == BytesI32(SubSeq(b.data, start + 1, start + 4))

\* The buffer the last operation went through.
RetBuf == Buf(ret.h)

\* C1: whenever sized_read returns Ok, the cursor is at start + L, where
\* start is the cursor at entry and L the declared length read there, however
\* much the callback consumed (less than the block, all of it, or more).
C1_SizedReadEndsAtDeclaredEnd ==
    (ret.op = "sized_read" /\ ret.status = OK)
        => RetBuf.pos = ret.start + ret.len

\* C1 witness: a sized_read returned Ok after its callback had read past the
\* block's end, and the cursor was brought back.
C1_Witness ==
    /\ ret.op = "sized_read"
    /\ ret.status = OK
    /\ ret.ppos > ret.start + ret.len
    /\ RetBuf.pos = ret.start + ret.len

\* A sized_read returned Ok after its callback had left part of the block
\* unread.
C1_WitnessUnderRead ==
    /\ ret.op = "sized_read"
    /\ ret.status = OK
    /\ ret.ppos < ret.start + ret.len
    /\ ret.ppos > ret.start + 4

\* A sized_read returned Ok after its callback had read the block's body and
\* nothing else.
C1_WitnessExact ==
    /\ ret.op = "sized_read"
    /\ ret.status = OK
    /\ ret.len = 8
    /\ ret.ppos = ret.start + ret.len

\* C2: whenever sized_write returns Ok after a callback that wrote b bytes
\* through the sub-view, the int32 at start is 4 + b, the cursor is at
\* start + 4 + b, and reading the int32 at start again yields 4 + b.
C2_SizedWriteLength ==
    (ret.op = "sized_write" /\ ret.status = OK)
        => /\ HeaderAt(RetBuf, ret.start) = 4 + ret.len
           /\ RetBuf.pos = ret.start + 4 + ret.len
           /\ LET s == set_data_position(RetBuf, ret.start)
                  r == read_i32(s.buf)
              IN  s.status = OK /\ r.status = OK /\ r.value = 4 + ret.len

\* C2 witness: a sized_write whose body was a count field and one 4-byte
\* element returned Ok and stored 4 + 4 + 4 * 1.
C2_Witness ==
    /\ ret.op = "sized_write"
    /\ ret.status = OK
    /\ ret.len = 4 + 4 * 1
    /\ HeaderAt(RetBuf, ret.start) = 12
    /\ HeaderAt(RetBuf, ret.start + 4) = 1

\* The step is the part of sized_read that runs before the callback.
IsSizedReadEntry ==
    /\ call.op = "none"
    /\ ret'.op \in {"sized_read", "sized_read_begin"}
    /\ vars' # vars

\* C9: sized_read checks the declared length L before it calls the
\* callback: L < 0 and start + L > i32::MAX give BAD_VALUE, start + L beyond
\* the data size gives NOT_ENOUGH_DATA, and in each case the callback is not
\* run.
C9_Step ==
    IsSizedReadEntry =>
        LET b == Buf(ret'.h)
            start == b.pos
        IN  (start + 4 <= Len(b.data)) =>
              LET L == HeaderAt(b, start)
              IN  /\ (L < 0) =>
                        (ret'.status = BAD_VALUE /\ call'.op = "none")
                  /\ (L >= 0 /\ L > MaxI32 - start) =>
                        (ret'.status = BAD_VALUE /\ call'.op = "none")
                  /\ (L >= 0 /\ L <= MaxI32 - start
                        /\ start + L > Len(b.data)) =>
                        (ret'.status = NOT_ENOUGH_DATA /\ call'.op = "none")

C9_SizedReadValidatesHeader == [][C9_Step]_vars

\* C9 witness: sized_read refused a length whose sum with a non-zero start
\* overflows i32.
C9_Witness ==
    /\ ret.op = "sized_read"
    /\ ret.status = BAD_VALUE
    /\ ret.len = MaxI32
    /\ ret.start > 0
    /\ call.op = "none"

\* C10: when the callback of sized_write returns an error, sized_write
\* returns that error, the length field at start still holds the placeholder
\* 0, and the cursor is where the callback's writes left it.
C10_SizedWriteCallbackError ==
    (ret.op = "sized_write" /\ ret.arg # OK)
        => /\ ret.status = ret.arg
           /\ HeaderAt(RetBuf, ret.start) = 0
           /\ RetBuf.pos = ret.ppos
           /\ RetBuf.pos = ret.start + 4 + ret.len

\* C10 witness: a callback wrote into the block and then returned BAD_VALUE.
C10_Witness ==
    /\ ret.op = "sized_write"
    /\ ret.arg = BAD_VALUE
    /\ ret.status = BAD_VALUE
    /\ ret.len > 0

----------------------------------------------------------------------------
\* Properties of the splice.

\* The step is an append_from call.
IsAppend == ret'.op = "append_from" /\ vars' # vars

\* C3: append_from(dst, src, start, size) returns BAD_VALUE when start < 0,
\* size < 0 or start + size > src.size(); otherwise it returns Ok, dst grows
\* by exactly size bytes and the added bytes are src's bytes
\* [start, start + size).
C3_Step ==
    IsAppend =>
        LET dst == Buf(ret'.h)
            src == Buf(ret'.arg)
            dst2 == heap'[as_native(hnd[ret'.h])]
            start == ret'.start
            size == ret'.len
            n == Len(dst.data)
        IN  IF start < 0 \/ size < 0 \/ start + size > Len(src.data)
            THEN ret'.status = BAD_VALUE
            ELSE /\ ret'.status = OK
                 /\ Len(dst2.data) = n + size
                 /\ SubSeq(dst2.data, 1, n) = dst.data
                 /\ \A i \in 1..size :
                        dst2.data[n + i] = src.data[start + i]

C3_AppendFromBounds == [][C3_Step]_vars

\* C3 witness: a range inside a non-empty source, starting after its first
\* byte, was appended to a non-empty destination.
C3_Witness ==
    /\ ret.op = "append_from"
    /\ ret.status = OK
    /\ ret.start > 0
    /\ ret.len > 0
    /\ Len(RetBuf.data) > ret.len

\* An append_from was refused because start + size runs past the source.
C3_WitnessRefused ==
    /\ ret.op = "append_from"
    /\ ret.status = BAD_VALUE
    /\ ret.start >= 0
    /\ ret.len >= 0

----------------------------------------------------------------------------
\* Properties of the handles.

OwningKinds == {"Owned", "OwnedParcel"}
BorrowingKinds == {"Borrowed", "BorrowedParcel"}

\* C4: the engine's destroy primitive runs at most once per buffer, exactly
\* once when an owning handle is dropped, not at all when a borrowing handle
\* is dropped, and not at all when into_raw / into_parcel consume an
\* OwnedParcel.
C4_Step ==
    /\ \A p \in Ptrs : heap'[p].deletes <= 1
    /\ (ret'.op = "drop" /\ vars' # vars) =>
         LET hr == hnd[ret'.h]
         IN  /\ hr.kind \in OwningKinds =>
                  /\ heap'[hr.ptr].deletes = heap[hr.ptr].deletes + 1
                  /\ \A p \in Ptrs \ {hr.ptr} : heap'[p] = heap[p]
             /\ hr.kind \in BorrowingKinds => heap' = heap
    /\ (ret'.op \in {"into_raw", "into_parcel"} /\ vars' # vars) =>
         /\ hnd[ret'.h].kind = "OwnedParcel"
         /\ hnd'[ret'.h].kind # "OwnedParcel"
         /\ heap' = heap

C4_DestroyedOncePerOwner == [][C4_Step]_vars

\* C4 witness: a buffer went through into_raw and from_raw, and the owning
\* handle that ended up with it was dropped: one destruction.
C4_Witness ==
    /\ ret.op = "drop"
    /\ ret.arg \in OwningKinds
    /\ heap[ret.len].st = "freed"
    /\ heap[ret.len].deletes = 1

\* C5: every live handle refers to a buffer that was created and is not
\* destroyed.
C5_LiveHandlesValid ==
    \A h \in Hids :
        hnd[h].kind # "none" =>
            /\ hnd[h].ptr \in Ptrs
            /\ heap[hnd[h].ptr].st = "live"

\* The operations that go through an existing OwnedParcel, and the handle
\* each one goes through.
OwnedSubject(r) ==
    IF r.op \in {"drop", "into_raw", "into_parcel", "send"} THEN r.h
    ELSE IF r.op \in {"borrowed", "clone"} THEN r.arg
    ELSE 0

\* C6: while a BorrowedParcel made by OwnedParcel::borrowed is live, nothing
\* is done through the OwnedParcel it came from; an OwnedParcel has no other
\* live handle to its buffer when it moves to another thread; and the live
\* handles to one buffer are always on one thread.
C6_Step ==
    /\ (vars' # vars /\ OwnedSubject(ret') \in Hids) =>
          (hnd[OwnedSubject(ret')].kind = "OwnedParcel"
              => ~(\E g \in Hids : /\ hnd[g].kind = "BorrowedParcel"
                                   /\ hnd[g].parent = OwnedSubject(ret')))
    /\ \A h \in Hids :
          (hnd[h].kind # "none" /\ hnd'[h].kind # "none"
              /\ hnd'[h].thread # hnd[h].thread) =>
             /\ hnd[h].kind = "OwnedParcel"
             /\ \A g \in Hids \ {h} :
                   hnd[g].kind # "none" => hnd[g].ptr # hnd[h].ptr
    /\ \A g, h \in Hids :
          (hnd'[g].kind # "none" /\ hnd'[h].kind # "none"
              /\ hnd'[g].ptr = hnd'[h].ptr) =>
             hnd'[g].thread = hnd'[h].thread

RECURSIVE ReadFrom(_)
ReadFrom(b) ==
    LET r == read_i32(b)
    IN  IF r.status # OK THEN <<>> ELSE <<r.value>> \o ReadFrom(r.buf)

ReadAll(b) == ReadFrom(set_data_position(b, 0).buf)

\* C7: a clone holds the byte sequence and data size of its source, so
\* reading from the start of the clone yields what reading from the start of
\* the source yields.
C7_CloneEquivalent ==
    (ret.op = "clone" /\ ret.status = OK) =>
        LET c == Buf(ret.h)
            s == Buf(ret.arg)
        IN  /\ c.data = s.data
            /\ get_data_size(c) = get_data_size(s)
            /\ ReadAll(c) = ReadAll(s)

\* C7 witness: a parcel holding a value, its cursor back at the start, was
\* cloned.
C7_Witness ==
    /\ ret.op = "clone"
    /\ ret.status = OK
    /\ Buf(ret.arg).pos = 0
    /\ ReadAll(Buf(ret.h)) = <<42>>

\* The operations on the data of one parcel.
DataOps == {"write", "set_data_position", "read", "append_from"}

\* C8: clone yields an owning handle over a buffer created by the clone and
\* different from the source's, leaves the source's buffer as it was, never
\* leaves two owning handles on one buffer, and an operation on the data of
\* one handle's buffer changes no other buffer.
C8_Step ==
    /\ (ret'.op = "clone" /\ ret'.status = OK /\ vars' # vars) =>
          LET n == hnd'[ret'.h]
              s == hnd[ret'.arg]
          IN  /\ n.kind \in OwningKinds
              /\ n.ptr # s.ptr
              /\ heap[n.ptr].st = "unalloc"
              /\ heap'[n.ptr].st = "live"
              /\ heap'[s.ptr] = heap[s.ptr]
              /\ hnd'[ret'.arg] = s
    /\ \A g, h \in Hids :
          (g # h /\ hnd'[g].kind \in OwningKinds
              /\ hnd'[h].kind \in OwningKinds) => hnd'[g].ptr # hnd'[h].ptr
    /\ (ret'.op \in DataOps /\ vars' # vars) =>
          \A p \in Ptrs \ {hnd[ret'.h].ptr} : heap'[p] = heap[p]

C8_CloneNeverAliases == [][C8_Step]_vars

\* C8 witness: a clone was written to after the cloning and its source still
\* holds nothing.
C8_Witness ==
    \E g, h \in Hids :
        /\ g # h
        /\ hnd[g].kind \in OwningKinds
        /\ hnd[h].kind \in OwningKinds
        /\ ret.op = "write"
        /\ ret.h = h
        /\ Buf(h).data # <<>>
        /\ Buf(g).data = <<>>
        /\ heap[hnd[g].ptr].st = "live"
        /\ hnd[h].ptr > hnd[g].ptr

----------------------------------------------------------------------------
\* Properties of the framing calls: callback errors and the readable
\* sub-view.

\* The step is the return of a sized_read whose callback ran.
IsSizedReadReturn ==
    /\ call.op = "sized_read"
    /\ ret'.op = "sized_read"

\* C11: when the callback of sized_read returns an error, sized_read returns
\* that error and makes no seek: the buffer and its cursor stay as the
\* callback's reads left them.
C11_Step ==
    (IsSizedReadReturn /\ ret'.arg # OK) =>
        /\ ret'.status = ret'.arg
        /\ heap' = heap
        /\ heap'[as_native(hnd[call.h])].pos = ret'.ppos

C11_SizedReadCallbackError == [][C11_Step]_vars

\* C11 witness: a callback read part of its block, returned BAD_VALUE, and
\* the cursor is still short of the block's end.
C11_Witness ==
    /\ ret.op = "sized_read"
    /\ ret.ppos > ret.start + 4
    /\ ret.arg = BAD_VALUE
    /\ ret.status = BAD_VALUE
    /\ RetBuf.pos = ret.ppos
    /\ RetBuf.pos < ret.start + ret.len

\* The step is a read through the readable sub-view.
IsSubRead == call.op = "sized_read" /\ ret'.op = "sub_read"

\* C12: no read through ReadableSubParcel moves the cursor past
\* end_position.
C12_Step ==
    (IsSubRead /\ ret'.status = OK) =>
        heap'[as_native(hnd[call.h])].pos <= call.end

C12_SubReadStaysBelowEnd == [][C12_Step]_vars

\* C19: has_more_data is true exactly when the cursor is below end_position;
\* a read through the sub-view with the cursor at or past end_position fails
\* the assertion and decodes nothing, and any other read through it is the
\* plain read at the cursor.
C19_Step ==
    /\ (call.op = "sized_read" /\ ret'.op = "has_more_data") =>
          /\ (ret'.len = 1) <=> (Buf(call.h).pos < call.end)
          /\ heap' = heap
    /\ IsSubRead =>
          IF Buf(call.h).pos >= call.end
          THEN /\ ret'.status = "PANIC"
               /\ heap' = heap
               /\ call'.op = "none"
          ELSE /\ ret'.status \in {OK, NOT_ENOUGH_DATA}
               /\ ret'.status = OK =>
                    /\ ret'.len = HeaderAt(Buf(call.h), Buf(call.h).pos)
                    /\ heap'[as_native(hnd[call.h])].pos = Buf(call.h).pos + 4

C19_SubReadAssertsMoreData == [][C19_Step]_vars

\* C19 witness: a callback read its whole block and read once more: the
\* assertion failed with the cursor at end_position.
C19_Witness ==
    /\ ret.op = "sub_read"
    /\ ret.status = "PANIC"
    /\ ret.start > 4
    /\ call.op = "none"

\* A read through the sub-view decoded a value with the cursor below
\* end_position.
C19_WitnessDecoded ==
    /\ ret.op = "sub_read"
    /\ ret.status = OK
    /\ ret.len = -1
    /\ ret.start < call.end

\* C20: while the callback of sized_write runs, and when it has returned,
\* the cursor is not below the cursor recorded at entry: the assertion
\* end >= start holds and the length patched in is not negative.
C20_SizedWriteEndNotBeforeStart ==
    /\ call.op = "sized_write" => Buf(call.h).pos >= call.start
    /\ ret.op = "sized_write" =>
          /\ ret.status # "PANIC"
          /\ ret.ppos >= ret.start
          /\ ret.status = OK => HeaderAt(RetBuf, ret.start) >= 0

\* C20 witness: a sized_write that began in the middle of existing data,
\* after the cursor had been moved back, returned Ok.
C20_Witness ==
    /\ ret.op = "sized_write"
    /\ ret.status = OK
    /\ ret.start > 0
    /\ ret.start + 4 + ret.len < Len(RetBuf.data)

----------------------------------------------------------------------------
\* Round trip of values.

\* Parcel::read::<Vec<i32>>: Deserialize for a vector reads the element
\* count, refuses an absent sequence and a count beyond what remains, and
\* then reads the elements in order.
RECURSIVE ReadElems(_, _)
ReadElems(b, n) ==
    IF n = 0 THEN [status |-> OK, value |-> <<>>, buf |-> b]
    ELSE LET r == read_i32(b)
         IN  IF r.status # OK
             THEN [status |-> r.status, value |-> <<>>, buf |-> r.buf]
             ELSE LET t == ReadElems(r.buf, n - 1)
                  IN  [t EXCEPT !.value = <<r.value>> \o t.value]

read_vec_i32(b) ==
    LET r == read_i32(b)
    IN  IF r.status # OK
        THEN [status |-> r.status, value |-> <<>>, buf |-> r.buf]
        ELSE IF r.value < 0
        THEN [status |-> UNEXPECTED_NULL, value |-> <<>>, buf |-> r.buf]
        ELSE IF r.value > get_data_size(r.buf) - get_data_position(r.buf)
        THEN [status |-> NOT_ENOUGH_DATA, value |-> <<>>, buf |-> r.buf]
        ELSE ReadElems(r.buf, r.value)

\* The values and slices the round trip is tried on at every reachable
\* buffer and cursor.
RoundTripVals ==
    Vals \cup {1, -2, 255, 256, 65535, 65536, 16777216, -MaxI32, -MaxI32 - 1}

RoundTripSlices == Slices \cup {<<MaxI32, -1>>, <<0, 256, -MaxI32 - 1>>}

\* write(&v) at the cursor of b, set_data_position back, read::<i32>().
RoundTripI32(b, v) ==
    LET p == get_data_position(b)
        w == write_i32(b, v)
        s == set_data_position(w.buf, p)
        r == read_i32(s.buf)
    IN  /\ w.status = OK
        /\ s.status = OK
        /\ r.status = OK
        /\ r.value = v
        /\ get_data_position(r.buf) = get_data_position(w.buf)

\* write(&s[..]) at the cursor of b, set_data_position back,
\* read::<Vec<i32>>().
RoundTripSlice(b, sl) ==
    LET p == get_data_position(b)
        w == write_slice_i32(b, sl)
        s == set_data_position(w.buf, p)
        r == read_vec_i32(s.buf)
    IN  /\ w.status = OK
        /\ s.status = OK
        /\ r.status = OK
        /\ r.value = sl
        /\ get_data_position(r.buf) = get_data_position(w.buf)

\* C15: at every buffer and cursor the program reaches, writing a value at
\* the cursor, setting the cursor back and reading the same type returns Ok
\* with the value written and leaves the cursor where the write left it.
C15_RoundTrip ==
    \A h \in Hids :
        (hnd[h].kind \in ParcelKinds /\ as_native(hnd[h]) \in Ptrs) =>
            /\ \A v \in RoundTripVals : RoundTripI32(Buf(h), v)
            /\ \A sl \in RoundTripSlices : RoundTripSlice(Buf(h), sl)

\* C15 witness: i32::MAX, written after other data, was read back after the
\* cursor had been set back to where it was written, and the cursor is where
\* the write left it.
C15_Witness ==
    /\ ret.op = "read"
    /\ ret.status = OK
    /\ ret.len = MaxI32
    /\ ret.start > 0
    /\ RetBuf.pos = ret.start + 4
    /\ RoundTripI32(RetBuf, -1)

----------------------------------------------------------------------------
\* Output parameters: sequence sizes and reads onto an existing value.

\* Option<&[T]> as write_slice_size takes it, None or Some(slice).
NoSlice == [some |-> FALSE, slice |-> <<>>]
SomeSlice(s) == [some |-> TRUE, slice |-> s]
SliceOpts == {NoSlice} \cup {SomeSlice(s) : s \in Slices}

\* usize -> i32 by try_into: fails above i32::MAX.
try_into_i32(n) ==
    IF n > MaxI32 THEN [ok |-> FALSE, value |-> 0]
    ELSE [ok |-> TRUE, value |-> n]

write_slice_size_EmptyForNone(b, slice) ==
    IF slice.some THEN write_i32(b, Len(slice.slice)) ELSE write_i32(b, 0)

\* Parcel::write_slice_size
write_slice_size(b, slice) ==
    IF slice.some
    THEN LET len == try_into_i32(Len(slice.slice))
         IN  IF ~len.ok THEN [status |-> BAD_VALUE, buf |-> b]
             ELSE write_i32(b, len.value)
    ELSE write_i32(b, -1)

\* A Vec<D>: len elements, the first Len(init) of them init and the others
\* D::default().
Default == 0
Vec(len, init) == [len |-> len, init |-> init]
EmptyVec == Vec(0, <<>>)

\* Vec::resize_with(len, Default::default): truncate, or extend with
\* defaults.
resize_with(v, len) ==
    Vec(len, Take(v.init, IF Len(v.init) < len THEN Len(v.init) ELSE len))

\* Option<Vec<D>>
None == [some |-> FALSE, vec |-> EmptyVec]
Some(v) == [some |-> TRUE, vec |-> v]

\* What a call with an output parameter leaves: the status, the buffer, the
\* output and the parts of the output the call assigned.
Out(status, buf, out, written) ==
    [status |-> status, buf |-> buf, out |-> out, written |-> written]

resize_out_vec_ResizeFirst(b, out_vec) ==
    LET r == read_i32(b)
    IN  IF r.status # OK THEN Out(r.status, r.buf, out_vec, {})
        ELSE IF r.value < 0
        THEN Out(UNEXPECTED_NULL, r.buf, resize_with(out_vec, 0), {"vec"})
        ELSE Out(OK, r.buf, resize_with(out_vec, r.value), {"vec"})

\* Parcel::resize_out_vec (on targets whose usize holds an i32)
resize_out_vec(b, out_vec) ==
    LET r == read_i32(b)
    IN  IF r.status # OK THEN Out(r.status, r.buf, out_vec, {})
        ELSE IF r.value < 0 THEN Out(UNEXPECTED_NULL, r.buf, out_vec, {})
        ELSE Out(OK, r.buf, resize_with(out_vec, r.value), {"vec"})

\* Parcel::resize_nullable_out_vec
resize_nullable_out_vec(b, out_vec) ==
    LET r == read_i32(b)
    IN  IF r.status # OK THEN Out(r.status, r.buf, out_vec, {})
        ELSE IF r.value < 0 THEN Out(OK, r.buf, None, {"vec"})
        ELSE Out(OK, r.buf, Some(resize_with(EmptyVec, r.value)), {"vec"})

\* Deserialize::deserialize_from as the trait provides it:
\* *self = Self::deserialize(parcel)?
deserialize_from_i32(b, x) ==
    LET r == read_i32(b)
    IN  IF r.status # OK THEN Out(r.status, r.buf, x, {})
        ELSE Out(OK, r.buf, r.value, {"value"})

\* Parcel::read_onto::<i32>
read_onto_i32(b, x) == deserialize_from_i32(b, x)

\* The closure of the sized_read example, for a parcelable with the fields
\* a: i32 and b: i64: each field is assigned in place when has_more_data(),
\* and the first failing read ends the closure.
ReadFields(b, end, x) ==
    LET ra == IF has_more_data(b, end)
              THEN LET r == SubParcelRead(b, end)
                   IN  IF r.status # OK THEN Out(r.status, r.buf, x, {})
                       ELSE Out(OK, r.buf, [x EXCEPT !.a = r.value], {"a"})
              ELSE Out(OK, b, x, {})
    IN  IF ra.status # OK THEN ra
        ELSE IF has_more_data(ra.buf, end)
        THEN LET r == read_i64(ra.buf)
             IN  IF r.status # OK
                 THEN Out(r.status, r.buf, ra.out, ra.written)
                 ELSE Out(OK, r.buf, [ra.out EXCEPT !.b = r.value],
                          ra.written \cup {"b"})
        ELSE ra

\* Parcel::read_onto for that parcelable: deserialize_from decodes the
\* fields in place inside one sized_read.
read_onto_parcelable(b, x) ==
    LET hd == SizedReadHeader(b)
    IN  IF hd.status # OK THEN Out(hd.status, hd.buf, x, {})
        ELSE LET f == ReadFields(hd.buf, hd.end, x)
                 r == SizedReadAfterCallback(f.buf, hd.end, f.status)
             IN  Out(r.status, r.buf, f.out, f.written)


\* What a call with an output parameter was given and what it left there.
InOut(old, r) == [old |-> old, new |-> r.out, written |-> r.written]

\* parcel.write_slice_size(slice)
WriteSliceSize(h, slice) ==
    /\ CanUse(h)
    /\ Buf(h).pos + 4 <= MaxSize
    /\ LET r == write_slice_size(Buf(h), slice)
       IN  /\ heap' = [heap EXCEPT ![as_native(hnd[h])] = r.buf]
           /\ ret' = Ret("write_slice_size", h, r.status, Buf(h).pos,
                         Len(slice.slice), Buf(h).pos, slice.some)
    /\ UNCHANGED <<hnd, raw, call>>

\* parcel.resize_out_vec(&mut out_vec)
ResizeOutVec(h, out_vec) ==
    /\ CanUse(h)
    /\ LET r == resize_out_vec(Buf(h), out_vec)
       IN  /\ heap' = [heap EXCEPT ![as_native(hnd[h])] = r.buf]
           /\ ret' = Ret("resize_out_vec", h, r.status, Buf(h).pos, 0,
                         Buf(h).pos, InOut(out_vec, r))
    /\ UNCHANGED <<hnd, raw, call>>

\* parcel.resize_nullable_out_vec(&mut out_vec)
ResizeNullableOutVec(h, out_vec) ==
    /\ CanUse(h)
    /\ LET r == resize_nullable_out_vec(Buf(h), out_vec)
       IN  /\ heap' = [heap EXCEPT ![as_native(hnd[h])] = r.buf]
           /\ ret' = Ret("resize_nullable_out_vec", h, r.status, Buf(h).pos,
                         0, Buf(h).pos, InOut(out_vec, r))
    /\ UNCHANGED <<hnd, raw, call>>

\* parcel.read_onto(&mut x) for x: i32
ReadOnto(h, x) ==
    /\ CanUse(h)
    /\ LET r == read_onto_i32(Buf(h), x)
       IN  /\ heap' = [heap EXCEPT ![as_native(hnd[h])] = r.buf]
           /\ ret' = Ret("read_onto", h, r.status, Buf(h).pos, 0,
                         Buf(h).pos, InOut(x, r))
    /\ UNCHANGED <<hnd, raw, call>>

\* parcel.read_onto(&mut x) for x a parcelable
ReadOntoParcelable(h, x) ==
    /\ CanUse(h)
    /\ LET r == read_onto_parcelable(Buf(h), x)
       IN  /\ heap' = [heap EXCEPT ![as_native(hnd[h])] = r.buf]
           /\ ret' = Ret("read_onto_parcelable", h, r.status, Buf(h).pos, 0,
                         Buf(h).pos, InOut(x, r))
    /\ UNCHANGED <<hnd, raw, call>>

----------------------------------------------------------------------------
\* The output specification: one Parcel, as Parcel::new() leaves it, written
\* to and read into output parameters that hold earlier values.

\* The values the callers of this specification write, at word-aligned
\* cursors.
OutVals == {12, MaxI32}

\* The values the output parameters hold before a call.
PriorVecs == {Vec(1, <<7>>)}
PriorOptVecs == {None, Some(Vec(1, <<7>>))}
PriorInts == {7}
PriorParcelables == {[a |-> 7, b |-> <<7, 0, 0, 0, 0, 0, 0, 0>>]}

NextOut ==
    \/ \E v \in OutVals : Buf(1).pos % 4 = 0 /\ Write(1, v)
    \/ \E pos \in 0..MaxSize : SetDataPosition(1, pos)
    \/ Read(1)
    \/ \E slice \in SliceOpts :
          Buf(1).pos % 4 = 0 /\ WriteSliceSize(1, slice)
    \/ \E v \in PriorVecs : ResizeOutVec(1, v)
    \/ \E v \in PriorOptVecs : ResizeNullableOutVec(1, v)
    \/ \E x \in PriorInts : ReadOnto(1, x)
    \/ \E x \in PriorParcelables : ReadOntoParcelable(1, x)

SpecOut == Init /\ [][NextOut]_vars

----------------------------------------------------------------------------
\* Properties of the output parameters.

\* The calls that fill an output parameter.
OutOps ==
    {"resize_out_vec", "resize_nullable_out_vec", "read_onto",
     "read_onto_parcelable"}

\* The header the last call read at its entry cursor, and the bytes that
\* remained after it.
HeaderReadable == ret.start + 4 <= Len(RetBuf.data)
HeaderRead == HeaderAt(RetBuf, ret.start)
RemainingAfterHeader == Len(RetBuf.data) - (ret.start + 4)

\* C13: a header that sizes a vector (resize_out_vec,
\* resize_nullable_out_vec) or bounds a block (sized_read) is non-negative
\* and within what remains of the buffer when it is used.
C13_HeadersValidated ==
    /\ (ret.op = "resize_out_vec" /\ "vec" \in ret.arg.written) =>
          /\ HeaderRead >= 0
          /\ ret.arg.new.len <= RemainingAfterHeader
    /\ (ret.op = "resize_nullable_out_vec" /\ "vec" \in ret.arg.written
            /\ ret.arg.new.some) =>
          /\ HeaderRead >= 0
          /\ ret.arg.new.vec.len <= RemainingAfterHeader
    /\ call.op = "sized_read" =>
          /\ call.len >= 0
          /\ call.end <= Len(Buf(call.h).data)

\* The output was left as it was.
OutputUntouched == ret.arg.written = {} /\ ret.arg.new = ret.arg.old

\* C14 as claimed: whenever read_onto, resize_out_vec or
\* resize_nullable_out_vec returns an error, the output is fully written or
\* left at its prior value.
C14_FailedReadNotPartial ==
    (ret.op \in OutOps /\ ret.status # OK) =>
        \/ OutputUntouched
        \/ ret.arg.written =
              IF ret.op = "read_onto_parcelable" THEN {"a", "b"}
              ELSE IF ret.op = "read_onto" THEN {"value"} ELSE {"vec"}

\* C14 as amended: a failed resize_out_vec, resize_nullable_out_vec or
\* read_onto of an i32 leaves the output at its prior value; a failed
\* read_onto of a parcelable decoded field by field leaves every field either
\* at its prior value or at the value decoded for it, the fields before the
\* failing one decoded and the others prior.
C14_FailedReadOutput ==
    /\ (ret.op \in OutOps \ {"read_onto_parcelable"} /\ ret.status # OK) =>
          OutputUntouched
    /\ (ret.op = "read_onto_parcelable" /\ ret.status # OK) =>
          /\ ret.arg.written \in {{}, {"a"}}
          /\ ret.arg.new.b = ret.arg.old.b
          /\ IF "a" \in ret.arg.written
             THEN ret.arg.new.a = HeaderAt(RetBuf, ret.start + 4)
             ELSE ret.arg.new.a = ret.arg.old.a

\* C14 witness: resize_out_vec read a negative count into a vector that held
\* an element, returned UNEXPECTED_NULL and left the vector as it was.
C14_Witness ==
    /\ ret.op = "resize_out_vec"
    /\ ret.status = UNEXPECTED_NULL
    /\ ret.arg.old = Vec(1, <<7>>)
    /\ ret.arg.new = ret.arg.old

\* A failed read_onto of a parcelable left its first field overwritten.
C14_WitnessPartial ==
    /\ ret.op = "read_onto_parcelable"
    /\ ret.status = NOT_ENOUGH_DATA
    /\ ret.arg.written = {"a"}
    /\ ret.arg.new.a # ret.arg.old.a

\* Every element of v is D::default().
AllDefault(v) == \A i \in 1..Len(v.init) : v.init[i] = Default

\* write_slice_size(slice) at the cursor of b, set_data_position back, and
\* the two readers of the size.
SliceSizeTrip(b, slice, prior) ==
    LET p == get_data_position(b)
        w == write_slice_size(b, slice)
        s == set_data_position(w.buf, p)
        n == resize_nullable_out_vec(s.buf, prior)
        r == resize_out_vec(s.buf, prior.vec)
    IN  /\ w.status = OK
        /\ s.status = OK
        /\ n.status = OK
        /\ IF slice.some
           THEN /\ n.out = Some(Vec(Len(slice.slice), <<>>))
                /\ r.status = OK
                /\ r.out.len = Len(slice.slice)
           ELSE /\ n.out = None
                /\ r.status = UNEXPECTED_NULL
        /\ (n.out = Some(EmptyVec)) <=> (slice = SomeSlice(<<>>))
        /\ (n.out = None) <=> (slice = NoSlice)

\* C17: write_slice_size writes -1 for None and the length for Some;
\* resize_nullable_out_vec turns a negative header into None and any other
\* into Some of that many default elements; resize_out_vec refuses a negative
\* header with UNEXPECTED_NULL; so None and Some(empty) read back differently.
C17_NullAndEmptyDiffer ==
    /\ (ret.op = "write_slice_size" /\ ret.status = OK) =>
          HeaderRead = IF ret.arg THEN ret.len ELSE -1
    /\ (ret.op = "resize_nullable_out_vec" /\ ret.status = OK) =>
          IF HeaderRead < 0 THEN ret.arg.new = None
          ELSE /\ ret.arg.new.some
               /\ ret.arg.new.vec.len = HeaderRead
               /\ AllDefault(ret.arg.new.vec)
    /\ (ret.op = "resize_out_vec" /\ HeaderReadable /\ HeaderRead < 0) =>
          ret.status = UNEXPECTED_NULL
    /\ \A slice \in SliceOpts, prior \in PriorOptVecs :
          SliceSizeTrip(Buf(1), slice, prior)

\* C17 witness: the header written for None, after other data, was read back
\* by resize_nullable_out_vec into an output that held a vector: it is None
\* now.
C17_Witness ==
    /\ ret.op = "resize_nullable_out_vec"
    /\ ret.status = OK
    /\ ret.start > 0
    /\ ret.arg.old.some
    /\ ret.arg.new = None

\* The header written for an empty slice was read back as Some(empty).
C17_WitnessEmpty ==
    /\ ret.op = "resize_nullable_out_vec"
    /\ ret.status = OK
    /\ ret.arg.old = None
    /\ ret.arg.new = Some(EmptyVec)

----------------------------------------------------------------------------
\* Properties of short reads and of whole-parcel appends.

\* The encoded width of what the last read asked for.
ReadWidth == IF ret.op = "read_i64" THEN 8 ELSE 4

\* C16: a read of a fixed-width value with fewer bytes between the cursor
\* and the data size than the value's width returns NOT_ENOUGH_DATA: on an
\* empty parcel, and for an i32 on a parcel that holds 2 bytes.
C16_ShortReadNotEnoughData ==
    (ret.op \in {"read", "read_i64"}
        /\ Len(RetBuf.data) - ret.start < ReadWidth) =>
            /\ ret.status = NOT_ENOUGH_DATA
            /\ RetBuf.pos = ret.start

\* C16 witness: an i32 read at the start of a parcel that holds 2 bytes
\* returned NOT_ENOUGH_DATA.
C16_Witness ==
    /\ ret.op = "read"
    /\ ret.status = NOT_ENOUGH_DATA
    /\ ret.start = 0
    /\ Len(RetBuf.data) = 2

\* An i64 read with 6 bytes remaining returned NOT_ENOUGH_DATA.
C16_WitnessI64 ==
    /\ ret.op = "read_i64"
    /\ ret.status = NOT_ENOUGH_DATA
    /\ Len(RetBuf.data) - ret.start = 6

\* The step is an append_all_from call.
IsAppendAll == ret'.op = "append_all_from" /\ vars' # vars

\* Appending src to dst in the two adjacent ranges (0, k) and (k, n - k).
AppendInTwo(dst, src, k) ==
    LET n == get_data_size(src)
        a == append_from(dst, src, 0, k, TRUE)
        b == append_from(a.buf, src, k, n - k, TRUE)
    IN  [status |-> IF a.status # OK THEN a.status ELSE b.status,
         buf |-> b.buf]

\* C18: append_all_from(dst, src) is append_from(dst, src, 0, src.size()):
\* it returns Ok and dst grows by src.size() bytes, the bytes of src; and
\* appending src in two adjacent ranges (0, k) and (k, n - k) gives dst the
\* contents and size one append_all_from gives it.
C18_Step ==
    /\ IsAppendAll =>
          LET dst == Buf(ret'.h)
              src == Buf(ret'.arg)
              dst2 == heap'[as_native(hnd[ret'.h])]
          IN  /\ ret'.status = OK
              /\ get_data_size(dst2) = get_data_size(dst) + get_data_size(src)
              /\ dst2.data = dst.data \o src.data
              /\ \E adv \in BOOLEAN :
                    /\ append_from(dst, src, 0, get_data_size(src), adv).status
                          = ret'.status
                    /\ append_from(dst, src, 0, get_data_size(src), adv).buf
                          = dst2
              /\ heap'[as_native(hnd[ret'.arg])] = src
    /\ LET whole == append_all_from(Buf(2), Buf(1), TRUE)
       IN  \A k \in 0..get_data_size(Buf(1)) :
              /\ AppendInTwo(Buf(2), Buf(1), k).status = OK
              /\ whole.status = OK
              /\ AppendInTwo(Buf(2), Buf(1), k).buf.data = whole.buf.data

C18_AppendAllFrom == [][C18_Step]_vars

\* C18 witness: a 4-byte source was appended whole twice: the destination
\* holds 8 bytes and reads back the source's value twice.
C18_Witness ==
    /\ ret.op = "append_all_from"
    /\ ret.status = OK
    /\ ret.len = 4
    /\ get_data_size(RetBuf) = 8
    /\ ReadAll(RetBuf) = <<42, 42>>

----------------------------------------------------------------------------
\* The RefCell of a WritableSubParcel.
\*
\* WritableSubParcel::write is `parcelable.serialize(&mut *self.0.borrow_mut())`:
\* the RefMut is a temporary of that expression, so it is taken before
\* serialize starts and dropped when serialize has returned.  The steps below
\* take a write apart into the borrow, the writes serialize makes through the
\* borrowed Parcel, and the release.  call.op holds the borrow state of the
\* cell: "sized_write" while the callback runs and no write is in progress,
\* "sub_write" while a write holds the RefMut.

Borrowed == call.op = "sub_write"

borrow_mut_Unchecked(borrowed) ==
    [ok |-> TRUE, live |-> (IF borrowed THEN 1 ELSE 0) + 1]

\* RefCell::borrow_mut as write uses it: panics when a RefMut is live, hands
\* one out otherwise.  live is the number of RefMuts after the call.
borrow_mut(borrowed) ==
    IF borrowed THEN [ok |-> FALSE, live |-> 1]
    ELSE [ok |-> TRUE, live |-> 1]

\* subparcel.write(..) is entered, from the callback or from inside the
\* serialize of a write that is in progress.  A refused borrow panics and
\* unwinds out of sized_write.
SubWriteBorrow ==
    /\ call.op \in {"sized_write", "sub_write"}
    /\ LET r == borrow_mut(Borrowed)
       IN  /\ ret' = Ret("borrow_mut", call.h,
                         IF r.ok THEN OK ELSE "PANIC",
                         Buf(call.h).pos, r.live, Buf(call.h).pos,
                         IF Borrowed THEN 1 ELSE 0)
           /\ call' = IF r.ok THEN [call EXCEPT !.op = "sub_write"]
                      ELSE NoCall
    /\ UNCHANGED <<heap, hnd, raw>>

\* serialize writes one i32 through the borrowed Parcel.
SubSerialize(v) ==
    /\ call.op = "sub_write"
    /\ Buf(call.h).pos + 4 <= MaxSize
    /\ LET r == write_i32(Buf(call.h), v)
       IN  /\ heap' = [heap EXCEPT ![as_native(hnd[call.h])] = r.buf]
           /\ call' = [call EXCEPT !.len = call.len + 4]
           /\ ret' = Ret("serialize", call.h, r.status, Buf(call.h).pos, v,
                         Buf(call.h).pos, 0)
    /\ UNCHANGED <<hnd, raw>>

\* serialize has returned: the RefMut is dropped and write returns.
SubWriteRelease ==
    /\ call.op = "sub_write"
    /\ call' = [call EXCEPT !.op = "sized_write"]
    /\ ret' = Ret("release", call.h, OK, Buf(call.h).pos, call.len,
                  Buf(call.h).pos, 0)
    /\ UNCHANGED <<heap, hnd, raw>>

\* The values the callers of this specification write.
CellVals == {-1, 6}

NextCell ==
    \/ \E v \in CellVals : Write(1, v)
    \/ \E pos \in 0..MaxSize : SetDataPosition(1, pos)
    \/ SizedWriteBegin(1)
    \/ SubWriteBorrow
    \/ \E v \in CellVals : SubSerialize(v)
    \/ SubWriteRelease
    \/ \E res \in {OK} \cup CbErrors : SizedWriteReturn(res)

SpecCell == Init /\ [][NextCell]_vars

\* A step that enters WritableSubParcel::write.
IsBorrowStep ==
    /\ call.op \in {"sized_write", "sub_write"}
    /\ ret'.op = "borrow_mut"
    /\ vars' # vars

\* C21: inside a sized_write callback at most one mutable access to the
\* parcel is live: a write entered while no write is in progress gets the
\* borrow and holds it until it returns, the parcel is written only while the
\* borrow is held, the borrow is free again after the write, and a write
\* entered while another is in progress panics and writes nothing.
C21_Step ==
    /\ (IsBorrowStep /\ call.op = "sized_write") =>
          /\ ret'.status = OK
          /\ ret'.len = 1
          /\ call'.op = "sub_write"
          /\ heap' = heap
    /\ (IsBorrowStep /\ call.op = "sub_write") =>
          /\ ret'.status = "PANIC"
          /\ ret'.len = 1
          /\ call' = NoCall
          /\ heap' = heap
    /\ (call.op \in {"sized_write", "sub_write"} /\ heap' # heap
          /\ call'.op # "none") =>
          (call.op = "sub_write" /\ call'.op = "sub_write")
    /\ (call.op = "sub_write" /\ call'.op = "sized_write") =>
          (ret'.op = "release" /\ heap' = heap)

C21_OneMutableBorrow == [][C21_Step]_vars

\* C21 witness: two writes through the sub-view went through one after the
\* other, and a write entered from inside a third panicked.
C21_Witness ==
    /\ ret.op = "borrow_mut"
    /\ ret.status = "PANIC"
    /\ ret.arg = 1
    /\ ret.ppos = ret.start
    /\ RetBuf.pos = 12
    /\ get_data_size(RetBuf) = 12
    /\ HeaderAt(RetBuf, 0) = 0
    /\ call.op = "none"

----------------------------------------------------------------------------
\* Reading a framed block back.

\* The reads a callback makes at most.
MaxReads == 3

\* A callback of sized_read in the shape of the method's example: up to k
\* times, a read behind a has_more_data() check, an error returned with `?`.
RECURSIVE GuardedReads(_, _, _)
GuardedReads(b, end, k) ==
    IF k = 0 \/ ~has_more_data(b, end) THEN [status |-> OK, buf |-> b]
    ELSE LET r == SubParcelRead(b, end)
         IN  IF r.status # OK THEN [status |-> r.status, buf |-> r.buf]
             ELSE GuardedReads(r.buf, end, k - 1)

\* set_data_position(p), then sized_read with a callback of up to k reads.
\* cb is what the callback returned ("none" when it was not run).
ReadBlock(b, p, k) ==
    LET s == set_data_position(b, p)
    IN  IF s.status # OK THEN [status |-> s.status, buf |-> s.buf, cb |-> "none"]
        ELSE LET hd == SizedReadHeader(s.buf)
             IN  IF hd.status # OK
                 THEN [status |-> hd.status, buf |-> hd.buf, cb |-> "none"]
                 ELSE LET c == GuardedReads(hd.buf, hd.end, k)
                          r == SizedReadAfterCallback(c.buf, hd.end, c.status)
                      IN  [status |-> r.status, buf |-> r.buf, cb |-> c.status]

\* A block at offset 0 ends where the sized_write that just returned began.
BlockBefore ==
    /\ ret.start >= 4
    /\ HeaderAt(RetBuf, 0) = ret.start

\* C22: after a sized_write that began at cursor p returned Ok, seeking back
\* to p and calling sized_read with a callback that returns Ok succeeds,
\* changes no data and leaves the cursor where sized_write left it, wherever
\* behind the length field the callback stopped reading; with a
\* block before it that ends at p, reading the two blocks one after the other
\* from the first one's start ends there too.
C22_SizedWriteReadBack ==
    (ret.op = "sized_write" /\ ret.status = OK) =>
        \A k \in 0..MaxReads :
            /\ LET r == ReadBlock(RetBuf, ret.start, k)
               IN  /\ r.cb = OK
                   /\ r.status = OK
                   /\ r.buf.pos = RetBuf.pos
                   /\ r.buf.data = RetBuf.data
            /\ LET hd == SizedReadHeader(set_data_position(RetBuf, ret.start).buf)
               IN  \A q \in (ret.start + 4)..get_data_size(RetBuf) :
                      LET r == SizedReadAfterCallback(
                                   [hd.buf EXCEPT !.pos = q], hd.end, OK)
                      IN  r.status = OK /\ r.buf.pos = RetBuf.pos
            /\ BlockBefore =>
                  \A j \in 0..MaxReads :
                     LET r1 == ReadBlock(RetBuf, 0, j)
                         r2 == ReadBlock(r1.buf, r1.buf.pos, k)
                     IN  /\ r1.status = OK
                         /\ r1.buf.pos = ret.start
                         /\ r2.status = OK
                         /\ r2.buf.pos = RetBuf.pos

\* C22 witness: a sized_write of one value returned Ok right behind an
\* earlier block, and a callback that reads the value reads the block back.
C22_Witness ==
    /\ ret.op = "sized_write"
    /\ ret.status = OK
    /\ BlockBefore
    /\ ret.len = 4
    /\ RetBuf.pos = ret.start + 8
    /\ ReadBlock(RetBuf, ret.start, 1).status = OK
    /\ ReadBlock(RetBuf, ret.start, 1).buf.pos = RetBuf.pos

----------------------------------------------------------------------------
\* Declared lengths shorter than the length field.

\* The declared lengths that end before the length field does.
ShortLengths == 0..3

\* sized_read returned before it ran the callback, after reading the header.
HeaderRejected ==
    /\ ret.op = "sized_read"
    /\ ret.ppos = ret.start
    /\ RetBuf.pos = ret.start + 4

\* C23: sized_read accepts a declared length L with 0 <= L < 4: the header
\* is not rejected, has_more_data() is false for the whole callback, and on
\* Ok the cursor is at start + L, before the end of the length field; for
\* L = 0 that is start, and sized_read called again does the same again.
C23_ShortLengthAccepted ==
    /\ HeaderRejected => ret.len \notin ShortLengths
    /\ (call.op = "sized_read" /\ call.len \in ShortLengths) =>
          /\ call.end = call.start + call.len
          /\ ~has_more_data(Buf(call.h), call.end)
          /\ (ret.op = "has_more_data" => ret.len = 0)
    /\ (ret.op = "sized_read" /\ ret.status = OK
          /\ ret.len \in ShortLengths) =>
          /\ RetBuf.pos = ret.start + ret.len
          /\ RetBuf.pos < ret.start + 4
          /\ (ret.len = 0) =>
                LET again == ReadBlock(RetBuf, RetBuf.pos, 0)
                IN  /\ RetBuf.pos = ret.start
                    /\ again.status = OK
                    /\ again.buf = RetBuf

\* C23 witness: a sized_read of a block that declares 2 bytes returned Ok
\* and left the cursor inside the length field.
C23_Witness ==
    /\ ret.op = "sized_read"
    /\ ret.status = OK
    /\ ret.len = 2
    /\ ret.start > 0
    /\ RetBuf.pos = ret.start + 2

\* A sized_read of a block that declares 0 bytes returned Ok with the cursor
\* back at its start.
C23_WitnessZero ==
    /\ ret.op = "sized_read"
    /\ ret.status = OK
    /\ ret.len = 0
    /\ RetBuf.pos = ret.start

\* The callback of such a block asked has_more_data() and got false.
C23_WitnessNoData ==
    /\ call.op = "sized_read"
    /\ call.len \in ShortLengths
    /\ ret.op = "has_more_data"
    /\ ret.len = 0

----------------------------------------------------------------------------
\* The cursor after a rejected header.

\* C24: when sized_read has read the length header and rejects it (L < 0,
\* start + L overflowing, or start + L beyond the data size), it returns the
\* error without running the callback, the cursor is at start + 4 and not
\* back at start, and the buffer's contents and size are what they were.
C24_Step ==
    (IsSizedReadEntry /\ ret'.op = "sized_read") =>
        LET b == Buf(ret'.h)
            b2 == heap'[as_native(hnd[ret'.h])]
            start == get_data_position(b)
        IN  (start + 4 <= get_data_size(b)) =>
              /\ ret'.status \in {BAD_VALUE, NOT_ENOUGH_DATA}
              /\ ret'.start = start
              /\ ret'.len = HeaderAt(b, start)
              /\ \/ ret'.len < 0
                 \/ ret'.len > MaxI32 - start
                 \/ start + ret'.len > get_data_size(b)
              /\ get_data_position(b2) = start + 4
              /\ get_data_position(b2) # start
              /\ b2.data = b.data
              /\ get_data_size(b2) = get_data_size(b)
              /\ call'.op = "none"

C24_RejectedHeaderCursor == [][C24_Step]_vars

\* C24 witness: sized_read refused a block that declares 6 bytes where only
\* the length field is left, and the cursor is behind the length field.
C24_Witness ==
    /\ HeaderRejected
    /\ ret.status = NOT_ENOUGH_DATA
    /\ ret.len = 6
    /\ ret.start > 0
    /\ get_data_size(RetBuf) = ret.start + 4
    /\ RetBuf.pos = ret.start + 4

\* sized_read refused a negative length and left the cursor behind the
\* length field.
C24_WitnessNegative ==
    /\ HeaderRejected
    /\ ret.status = BAD_VALUE
    /\ ret.len < 0

\* sized_read refused a length whose end overflows and left the cursor
\* behind the length field.
C24_WitnessOverflow ==
    /\ HeaderRejected
    /\ ret.status = BAD_VALUE
    /\ ret.len > MaxI32 - ret.start

=============================================================================
